---- MODULE Spec2Model ----
(***************************************************************************)
(* Model of workshop-materials/2-PCA.ipynb: the notebook's code cells,     *)
(* executed top to bottom in one kernel.  The state is the kernel          *)
(* namespace (df, desc_df, nutr_df, nutr_df_TF, pca, pca_df, kmeansmodel), *)
(* the position of the next code cell and the exception that stopped the   *)
(* run, if any.  One action per state-changing code cell.                  *)
(*                                                                         *)
(* Numbers.  Raw nutrient values are small integers; a missing value is    *)
(* the sentinel NaN (NaNStr in a text column).  The numeric kernels of     *)
(* scipy/sklearn (the Box-Cox lambda, the scaler's mean and deviation, the *)
(* SVD) produce reals; their results are carried as cells that record the  *)
(* function applied (f), the column (col), the row the value was computed  *)
(* from (src) and an integer stand-in (v) on which k-means runs.           *)
(***************************************************************************)
EXTENDS Integers, Sequences, FiniteSets, TLC

(* ------------------------------ bounds -------------------------------- *)
MaxRows == 6      \* rows of the input file
NumNutr == 6      \* nutrient (numeric) columns of the input file
MaxIter == 2      \* cap on Lloyd iterations (stands for sklearn's max_iter)

(* ------------------------- program constants -------------------------- *)
NComponents == 5  \* pca[:, :5]
NClusters == 3    \* KMeans(n_clusters=3, ...)
RandomState == 13 \* KMeans(..., random_state=13)

NaN == -999       \* a missing numeric value (numpy.nan)
NaNStr == "NaN"   \* a missing value in a text column

(* ------------------------------ helpers ------------------------------- *)
Range(s) == {s[i] : i \in 1..Len(s)}

Min(a, b) == IF a <= b THEN a ELSE b

RECURSIVE SumSeq(_)
SumSeq(s) == IF s = <<>> THEN 0 ELSE Head(s) + SumSeq(Tail(s))

(* ---------------------------- input files ----------------------------- *)
\* NDB_No of the row at file position p: unique, not in file order.
IdOf(p) == 100 + ((p * 3) % 7)

\* The rows a file may hold.  The row at position p carries the nutrient
\* value 2(p-1)*j in column j, so no two rows of a file are equal and zeros
\* occur; the kinds other than "ok" carry one defect each: a missing value
\* in a text, nutrient or dropped column, or the value -p.
RowKinds == {"ok", "nan_desc", "nan_nutr", "nan_other", "neg"}

MkRow(kind, p) ==
  [ NDB_No    |-> IdOf(p),
    Shrt_Desc |-> IF kind = "nan_desc" THEN NaNStr ELSE "food",
    nutr      |-> [j \in 1..NumNutr |->
                     IF kind = "nan_nutr" /\ j = NumNutr THEN NaN
                     ELSE IF kind = "neg" /\ j = Min(2, NumNutr) THEN 0 - p
                     ELSE 2 * (p - 1) * j],
    GmWt_1    |-> IF kind = "nan_other" THEN NaN ELSE 28 ]

FileOfKinds(ks) == [p \in 1..Len(ks) |-> MkRow(ks[p], p)]

KindSeqs == UNION {[1..n -> RowKinds] : n \in 0..MaxRows}

\* A file is either unreadable (missing, malformed, wrong encoding) or a table.
Malformed == [readable |-> FALSE, rows |-> <<>>]
InputFiles == {Malformed} \cup {[readable |-> TRUE, rows |-> FileOfKinds(ks)] : ks \in KindSeqs}

(* ------------------------------- state -------------------------------- *)
VARIABLES
  file,        \* content of Data/USDA-nndb-combined.csv
  pc,          \* next code cell, or "done" / "aborted"
  err,         \* exception that stopped the run ("none" if none)
  failed,      \* the cell that raised ("none" if none)
  ns,          \* names bound in the kernel namespace
  ident,       \* the object each table name is bound to (0: unbound)
  df, desc_df, nutr_df, nutr_df_TF, pca, pca_df, labels,
  components,  \* fit.components_
  vects, c1, c2,
  ran,         \* cells executed so far, in order
  kmX,         \* repeated fits: the matrix handed to KMeans.fit
  kmSeed,      \* repeated fits: random_state
  kmRun,       \* repeated fits: the state of each fit
  joinL,       \* a join on its own: the left frame
  joinR,       \* a join on its own: the right frame
  joinOut      \* a join on its own: the result, once join has returned

interp == <<components, vects, c1, c2>>
nb == <<file, pc, err, failed, ns, ident, df, desc_df, nutr_df, nutr_df_TF, pca, pca_df, labels, interp,
        ran>>
km == <<kmX, kmSeed, kmRun>>
jn == <<joinL, joinR, joinOut>>
vars == <<nb, km, jn>>

TableNames == {"df", "desc_df", "nutr_df", "nutr_df_TF", "pca", "pca_df"}

NoObjects == [n \in TableNames |-> 0]

\* the parts of the state a specification does not use
NbUnused ==
  /\ file = [readable |-> FALSE, rows |-> <<>>]
  /\ pc = "unused"
  /\ err = "none"
  /\ failed = "none"
  /\ ns = {}
  /\ ident = NoObjects
  /\ df = <<>> /\ desc_df = <<>> /\ nutr_df = <<>> /\ nutr_df_TF = <<>>
  /\ pca = <<>> /\ pca_df = <<>> /\ labels = <<>>
  /\ components = <<>> /\ vects = <<>> /\ c1 = <<>> /\ c2 = <<>>
  /\ ran = <<>>

KmUnused == kmX = <<>> /\ kmSeed = 0 /\ kmRun = <<>>

JnUnused == joinL = <<>> /\ joinR = <<>> /\ joinOut = [returned |-> FALSE, rows |-> <<>>]

Init ==
  /\ file \in InputFiles
  /\ pc = "read_csv"
  /\ err = "none"
  /\ failed = "none"
  /\ ns = {}
  /\ ident = NoObjects
  /\ df = <<>> /\ desc_df = <<>> /\ nutr_df = <<>> /\ nutr_df_TF = <<>>
  /\ pca = <<>> /\ pca_df = <<>> /\ labels = <<>>
  /\ components = <<>> /\ vects = <<>> /\ c1 = <<>> /\ c2 = <<>>
  /\ ran = <<>>
  /\ KmUnused
  /\ JnUnused

\* The state-changing steps of the code cells, in file order.  A cell is
\* one step, except that a cell with a statement that edits a table in
\* place (inplace=True, column assignment) is one step per statement.
CellOrder ==
  << "read_csv", "dropna", "split_desc", "desc_set_index", "split_nutr", "drop_desc_cols",
     "set_index", "shift", "tf_frame", "boxcox", "scale", "pca", "pca_df",
     "join_desc", "drop_joined", "rename", "vects", "c1", "c2", "kmeans",
     "cluster_df", "set_cluster", "cluster_join" >>

CellPos(cell) == CHOOSE i \in 1..Len(CellOrder) : CellOrder[i] = cell

CellAfter(cell) ==
  IF CellPos(cell) = Len(CellOrder) THEN "done" ELSE CellOrder[CellPos(cell) + 1]

\* the exception is swallowed and the run goes on with the next cell
RaiseAndContinue(cell, e) ==
  /\ pc' = CellAfter(cell)
  /\ err' = e
  /\ failed' = cell
  /\ ran' = Append(ran, cell)

\* An uncaught exception stops the run: no later cell executes.
Raise(cell, e) ==
  /\ pc' = "aborted"
  /\ err' = e
  /\ failed' = cell
  /\ ran' = Append(ran, cell)

\* a cell that has run once is run again before the next one
GotoRepeat(cell, next) ==
  /\ pc' = IF cell \in Range(ran) THEN next ELSE cell
  /\ ran' = Append(ran, cell)
  /\ UNCHANGED <<err, failed>>

Goto(cell, next) ==
  /\ pc' = next
  /\ ran' = Append(ran, cell)
  /\ UNCHANGED <<err, failed>>

\* An assignment binds the name to an object that did not exist before; an
\* in-place edit leaves every name bound to the object it was bound to.
Fresh ==
  1 + (CHOOSE m \in {ident[n] : n \in TableNames} : \A n \in TableNames : ident[n] <= m)

Rebind(name) == ident' = [ident EXCEPT ![name] = Fresh]

SameObjects == UNCHANGED ident

(* ------------------------------ Loader -------------------------------- *)
\* df = pd.read_csv('Data/USDA-nndb-combined.csv', encoding='latin_1')
\* The frame gets the default RangeIndex 0..n-1.
ReadCsvFrame(f) ==
  [p \in 1..Len(f) |->
     [idx |-> p - 1, NDB_No |-> f[p].NDB_No, Shrt_Desc |-> f[p].Shrt_Desc,
      nutr |-> f[p].nutr, GmWt_1 |-> f[p].GmWt_1]]

ReadCsv ==
  /\ pc = "read_csv"
  /\ IF ~file.readable
     THEN /\ Raise("read_csv", "ParserError")
          /\ UNCHANGED <<ns, ident, df>>
     ELSE /\ df' = ReadCsvFrame(file.rows)
          /\ ns' = ns \cup {"df"}
          /\ Rebind("df")
          /\ Goto("read_csv", "dropna")
  /\ UNCHANGED <<file, desc_df, nutr_df, nutr_df_TF, pca, pca_df, labels, interp, km, jn>>

(* ------------------------------ Cleaner ------------------------------- *)
RowHasNa(r) ==
  \/ r.Shrt_Desc = NaNStr
  \/ r.GmWt_1 = NaN
  \/ \E j \in DOMAIN r.nutr : r.nutr[j] = NaN

\* df.dropna() with its result thrown away: nothing is dropped.
DropNaUnassigned(d) == d

\* only the first row with a missing value is dropped
RECURSIVE DropNaFirstOnly(_)
DropNaFirstOnly(d) ==
  IF d = <<>> THEN <<>>
  ELSE IF RowHasNa(Head(d)) THEN Tail(d)
  ELSE <<Head(d)>> \o DropNaFirstOnly(Tail(d))

\* DataFrame.dropna(): how='any', axis=0; surviving rows keep their labels.
DropNaFrame(d) == SelectSeq(d, LAMBDA r : ~RowHasNa(r))

DropNa ==
  /\ pc = "dropna"
  /\ df' = DropNaFrame(df)
  /\ Rebind("df")
  /\ Goto("dropna", "split_desc")
  /\ UNCHANGED <<file, ns, desc_df, nutr_df, nutr_df_TF, pca, pca_df, labels, interp, km, jn>>

\* desc_df = df.iloc[:, [0, 1, 2]+[i for i in range(50,54)]]
\* The descriptive columns are carried as the one field Shrt_Desc.
SplitDescFrame(d) ==
  [i \in 1..Len(d) |->
     [idx |-> d[i].idx, NDB_No |-> d[i].NDB_No, Shrt_Desc |-> d[i].Shrt_Desc]]

SplitDesc ==
  /\ pc = "split_desc"
  /\ desc_df' = SplitDescFrame(df)
  /\ ns' = ns \cup {"desc_df"}
  /\ Rebind("desc_df")
  /\ Goto("split_desc", "desc_set_index")
  /\ UNCHANGED <<file, df, nutr_df, nutr_df_TF, pca, pca_df, labels, interp, km, jn>>

\* the frame is also sorted, in descending order of the new labels' position
DescSetIndexReversed(d) ==
  [i \in 1..Len(d) |->
     [idx |-> d[Len(d) + 1 - i].NDB_No, Shrt_Desc |-> d[Len(d) + 1 - i].Shrt_Desc]]

\* desc_df.set_index('NDB_No', inplace=True): NDB_No becomes the row label.
DescSetIndexFrame(d) ==
  [i \in 1..Len(d) |-> [idx |-> d[i].NDB_No, Shrt_Desc |-> d[i].Shrt_Desc]]

DescSetIndex ==
  /\ pc = "desc_set_index"
  /\ desc_df' = DescSetIndexFrame(desc_df)
  /\ SameObjects
  /\ Goto("desc_set_index", "split_nutr")
  /\ UNCHANGED <<file, ns, df, nutr_df, nutr_df_TF, pca, pca_df, labels, interp, km, jn>>

\* nutr_df = df.iloc[:, :-5]   (drops GmWt_1 and the four columns after it)
SplitNutrFrame(d) ==
  [i \in 1..Len(d) |->
     [idx |-> d[i].idx, NDB_No |-> d[i].NDB_No, Shrt_Desc |-> d[i].Shrt_Desc,
      nutr |-> d[i].nutr]]

SplitNutr ==
  /\ pc = "split_nutr"
  /\ nutr_df' = SplitNutrFrame(df)
  /\ ns' = ns \cup {"nutr_df"}
  /\ Rebind("nutr_df")
  /\ Goto("split_nutr", "drop_desc_cols")
  /\ UNCHANGED <<file, df, desc_df, nutr_df_TF, pca, pca_df, labels, interp, km, jn>>

\* nutr_df = nutr_df.drop(['FoodGroup', 'Shrt_Desc'], axis=1)
DropDescColsFrame(d) ==
  [i \in 1..Len(d) |-> [idx |-> d[i].idx, NDB_No |-> d[i].NDB_No, nutr |-> d[i].nutr]]

DropDescCols ==
  /\ pc = "drop_desc_cols"
  /\ nutr_df' = DropDescColsFrame(nutr_df)
  /\ Rebind("nutr_df")
  /\ Goto("drop_desc_cols", "set_index")
  /\ UNCHANGED <<file, ns, df, desc_df, nutr_df_TF, pca, pca_df, labels, interp, km, jn>>

\* the index is left as it was: the positional labels
SetIndexSkipped(d) ==
  [i \in 1..Len(d) |-> [idx |-> d[i].idx, nutr |-> d[i].nutr]]

\* nutr_df.set_index('NDB_No', inplace=True)
SetIndexFrame(d) ==
  [i \in 1..Len(d) |-> [idx |-> d[i].NDB_No, nutr |-> d[i].nutr]]

NutrSetIndex ==
  /\ pc = "set_index"
  /\ nutr_df' = SetIndexFrame(nutr_df)
  /\ SameObjects
  /\ Goto("set_index", "shift")
  /\ UNCHANGED <<file, ns, df, desc_df, nutr_df_TF, pca, pca_df, labels, interp, km, jn>>

(* ----------------------------- Normalizer ----------------------------- *)
\* nutr_df = nutr_df + 1      (a new frame, bound to the old name)
Add1(x) == IF x = NaN THEN NaN ELSE x + 1

ShiftFrame(d) ==
  [i \in 1..Len(d) |->
     [idx |-> d[i].idx, nutr |-> [j \in DOMAIN d[i].nutr |-> Add1(d[i].nutr[j])]]]

\* nutr_df += 1: the frame is edited in place
ShiftInPlace ==
  /\ pc = "shift"
  /\ nutr_df' = ShiftFrame(nutr_df)
  /\ SameObjects
  /\ Goto("shift", "tf_frame")
  /\ UNCHANGED <<file, ns, df, desc_df, nutr_df_TF, pca, pca_df, labels, interp, km, jn>>

Shift ==
  /\ pc = "shift"
  /\ nutr_df' = ShiftFrame(nutr_df)
  /\ Rebind("nutr_df")
  /\ Goto("shift", "tf_frame")
  /\ UNCHANGED <<file, ns, df, desc_df, nutr_df_TF, pca, pca_df, labels, interp, km, jn>>

\* only negative values are rejected
BoxCoxErrorNegOnly(x) ==
  IF Len(x) = 0 THEN "IndexError"
  ELSE IF \E i \in 1..Len(x) : x[i] # NaN /\ x[i] < 0 THEN "ValueError"
  ELSE "none"

\* scipy.stats.boxcox(x)[0] on column j of d.  boxcox returns the empty
\* input itself when x.size == 0 (so [0] raises IndexError) and raises
\* ValueError("Data must be positive.") when any x <= 0.
Column(d, j) == [i \in 1..Len(d) |-> d[i].nutr[j]]

BoxCoxError(x) ==
  IF Len(x) = 0 THEN "IndexError"
  ELSE IF \E i \in 1..Len(x) : x[i] # NaN /\ x[i] <= 0 THEN "ValueError"
  ELSE "none"

\* Columns of d, in d's column order, that the loop transforms before it
\* stops: all of them, or those before the first column that raises.
FirstBad(d) ==
  IF \E j \in 1..NumNutr : BoxCoxError(Column(d, j)) # "none"
  THEN CHOOSE j \in 1..NumNutr :
         /\ BoxCoxError(Column(d, j)) # "none"
         /\ \A k \in 1..(j - 1) : BoxCoxError(Column(d, k)) = "none"
  ELSE 0

DoneCols(d) == IF FirstBad(d) = 0 THEN NumNutr ELSE FirstBad(d) - 1

\* nutr_df_TF = pd.DataFrame(index=nutr_df.index): the labels, no columns
TfFrame(d) == [i \in 1..Len(d) |-> [idx |-> d[i].idx, cells |-> <<>>]]

MakeTfFrame ==
  /\ pc = "tf_frame"
  /\ nutr_df_TF' = TfFrame(nutr_df)
  /\ ns' = ns \cup {"nutr_df_TF"}
  /\ Rebind("nutr_df_TF")
  /\ Goto("tf_frame", "boxcox")
  /\ UNCHANGED <<file, df, desc_df, nutr_df, pca, pca_df, labels, interp, km, jn>>

\* the loop takes the columns in reverse order
BoxCoxFrameReversed(t, d) ==
  [i \in 1..Len(t) |->
     [idx   |-> t[i].idx,
      cells |-> t[i].cells \o
                [j \in 1..DoneCols(d) |->
                   [f |-> "boxcox", col |-> NumNutr + 1 - j, src |-> d[i].idx,
                    y |-> d[i].nutr[NumNutr + 1 - j]]]]]

\* for col in nutr_df.columns.values:
\*     nutr_df_TF['{}_TF'.format(col)] = boxcox(nutr_df.loc[:, col])[0]
\* boxcox returns an array, so a column is assigned row by row, by position.
BoxCoxFrame(t, d) ==
  [i \in 1..Len(t) |->
     [idx   |-> t[i].idx,
      cells |-> t[i].cells \o
                [j \in 1..DoneCols(d) |->
                   [f |-> "boxcox", col |-> j, src |-> d[i].idx, y |-> d[i].nutr[j]]]]]

BoxCoxLoop ==
  /\ pc = "boxcox"
  /\ nutr_df_TF' = BoxCoxFrame(nutr_df_TF, nutr_df)
  /\ SameObjects
  /\ IF FirstBad(nutr_df) = 0
     THEN Goto("boxcox", "scale")
     ELSE Raise("boxcox", BoxCoxError(Column(nutr_df, FirstBad(nutr_df))))
  /\ UNCHANGED <<file, ns, df, desc_df, nutr_df, pca, pca_df, labels, interp, km, jn>>

\* nutr_df_TF = StandardScaler().fit_transform(nutr_df_TF)
\* The result is a numpy array: rows by position, no labels, no column names.
ScaleArray(t) ==
  [i \in 1..Len(t) |->
     [j \in DOMAIN t[i].cells |->
        [f |-> "scaled", col |-> t[i].cells[j].col, src |-> t[i].cells[j].src,
         y |-> t[i].cells[j].y]]]

StandardScale ==
  /\ pc = "scale"
  /\ nutr_df_TF' = ScaleArray(nutr_df_TF)
  /\ Rebind("nutr_df_TF")
  /\ Goto("scale", "pca")
  /\ UNCHANGED <<file, ns, df, desc_df, nutr_df, pca, pca_df, labels, interp, km, jn>>

(* ------------------------------ Reducer ------------------------------- *)
\* fit = PCA(); pca = fit.fit_transform(nutr_df_TF)
\* n_components defaults to min(n_samples, n_features); the result is a
\* numpy array with one row per input row, in the input's row order.  The
\* stand-in for the score of row i on component k is the centred value of
\* column k, times the row count to stay in the integers.
NFeatures(t) == IF Len(t) = 0 THEN 0 ELSE Len(t[1])

PcaArray(t) ==
  [i \in 1..Len(t) |->
     [k \in 1..Min(Len(t), NFeatures(t)) |->
        [f |-> "pc", comp |-> k, src |-> t[i][k].src,
         v |-> Len(t) * t[i][k].y - SumSeq([r \in 1..Len(t) |-> t[r][k].y])]]]

\* fit.components_: one row per component, one entry per input column, in
\* the input's column order; the entry stands for the loading of the
\* component on the feature that input column was computed from.
PcaComponents(t) ==
  [k \in 1..Min(Len(t), NFeatures(t)) |->
     [j \in 1..NFeatures(t) |-> [f |-> "loading", comp |-> k, col |-> t[1][j].col]]]

PcaFit ==
  /\ pc = "pca"
  /\ pca' = PcaArray(nutr_df_TF)
  /\ components' = PcaComponents(nutr_df_TF)
  /\ ns' = ns \cup {"fit", "pca"}
  /\ Rebind("pca")
  /\ Goto("pca", "pca_df")
  /\ UNCHANGED <<file, df, desc_df, nutr_df, nutr_df_TF, pca_df, labels, vects, c1, c2, km, jn>>

\* a slice that yields nothing unless all n columns exist
SliceColsStrict(a, n) ==
  IF \E i \in 1..Len(a) : Len(a[i]) < n THEN <<>>
  ELSE [i \in 1..Len(a) |-> SubSeq(a[i], 1, n)]

\* pca[:, :n]: numpy slicing clips to the columns that exist.
SliceCols(a, n) == [i \in 1..Len(a) |-> SubSeq(a[i], 1, Min(n, Len(a[i])))]

\* pd.DataFrame(a, index=ix): columns are labelled 0, 1, ...; the i-th row of
\* a gets the i-th label of ix.  Raises ValueError unless the lengths agree.
Index(d) == [i \in 1..Len(d) |-> d[i].idx]

FrameOf(a, ix) ==
  [i \in 1..Len(a) |->
     [idx |-> ix[i], names |-> [k \in 1..Len(a[i]) |-> ToString(k - 1)], comps |-> a[i]]]

\* left.join(right): a left join on the row labels.  Every left row, in
\* order, once per right row carrying its label; a left row without a
\* match is kept, with missing values in the right-hand columns.
Matches(right, label) == SelectSeq(right, LAMBDA r : r.idx = label)

WithDesc(l, desc) == [x \in DOMAIN l \cup {"Shrt_Desc"} |->
                        IF x = "Shrt_Desc" THEN desc ELSE l[x]]

JoinRow(l, right) ==
  IF Matches(right, l.idx) = <<>> THEN << WithDesc(l, NaNStr) >>
  ELSE [m \in 1..Len(Matches(right, l.idx)) |->
          WithDesc(l, Matches(right, l.idx)[m].Shrt_Desc)]

\* an inner join: left rows without a match are dropped
RECURSIVE JoinInner(_, _)
JoinInner(left, right) ==
  IF left = <<>> THEN <<>>
  ELSE (IF Matches(right, Head(left).idx) = <<>> THEN <<>> ELSE JoinRow(Head(left), right))
       \o JoinInner(Tail(left), right)

RECURSIVE Join(_, _)
Join(left, right) ==
  IF left = <<>> THEN <<>>
  ELSE JoinRow(Head(left), right) \o Join(Tail(left), right)

\* pca_df.drop([...the six descriptive columns...], axis=1, inplace=True)
DropDesc(d) ==
  [i \in 1..Len(d) |-> [x \in DOMAIN d[i] \ {"Shrt_Desc"} |-> d[i][x]]]

\* pca_df.rename(columns={0:'c1', 1:'c2', 2:'c3', 3:'c4', 4:'c5'}, inplace=True)
\* Labels that are not present are ignored.
Rename(d) ==
  [i \in 1..Len(d) |->
     [d[i] EXCEPT !.names = [k \in DOMAIN d[i].names |->
                               IF k <= 5 THEN "c" \o ToString(k) ELSE d[i].names[k]]]]

\* pca_df = pd.DataFrame(pca[:, :5], index=desc_df.index)
MakePcaDf ==
  /\ pc = "pca_df"
  /\ IF Len(pca) # Len(desc_df)
     THEN /\ Raise("pca_df", "ValueError")
          /\ UNCHANGED <<ns, ident, pca_df>>
     ELSE /\ pca_df' = FrameOf(SliceCols(pca, NComponents), Index(desc_df))
          /\ ns' = ns \cup {"pca_df"}
          /\ Rebind("pca_df")
          /\ Goto("pca_df", "join_desc")
  /\ UNCHANGED <<file, df, desc_df, nutr_df, nutr_df_TF, pca, labels, interp, km, jn>>

\* pca_df = pca_df.join(desc_df)
JoinDesc ==
  /\ pc = "join_desc"
  /\ pca_df' = Join(pca_df, desc_df)
  /\ Rebind("pca_df")
  /\ Goto("join_desc", "drop_joined")
  /\ UNCHANGED <<file, ns, df, desc_df, nutr_df, nutr_df_TF, pca, labels, interp, km, jn>>

\* pca_df.drop([...], axis=1, inplace=True)
DropJoined ==
  /\ pc = "drop_joined"
  /\ pca_df' = DropDesc(pca_df)
  /\ SameObjects
  /\ Goto("drop_joined", "rename")
  /\ UNCHANGED <<file, ns, df, desc_df, nutr_df, nutr_df_TF, pca, labels, interp, km, jn>>

\* pca_df.rename(columns={...}, inplace=True)
RenameCols ==
  /\ pc = "rename"
  /\ pca_df' = Rename(pca_df)
  /\ SameObjects
  /\ Goto("rename", "vects")
  /\ UNCHANGED <<file, ns, df, desc_df, nutr_df, nutr_df_TF, pca, labels, interp, km, jn>>

\* a[:n]: the first n rows that exist
SliceRows(a, n) == SubSeq(a, 1, Min(n, Len(a)))

\* vects = fit.components_[:5]
MakeVects ==
  /\ pc = "vects"
  /\ vects' = SliceRows(components, NComponents)
  /\ ns' = ns \cup {"vects"}
  /\ SameObjects
  /\ Goto("vects", "c1")
  /\ UNCHANGED <<file, df, desc_df, nutr_df, nutr_df_TF, pca, pca_df, labels,
                 components, c1, c2, km, jn>>

\* nutr_df.columns: the nutrient columns, named here by their position in
\* the file's nutrient block.
Columns(d) == [j \in 1..NumNutr |-> j]

\* pd.Series(a[i], index=ix): IndexError when a has no row i, ValueError
\* when the lengths differ; else the p-th value under the p-th label.
SeriesError(a, i, ix) ==
  IF Len(a) < i THEN "IndexError"
  ELSE IF Len(a[i]) # Len(ix) THEN "ValueError"
  ELSE "none"

Series(values, ix) == [p \in 1..Len(ix) |-> [label |-> ix[p], value |-> values[p]]]

\* c1 = pd.Series(vects[0], index=nutr_df.columns)
MakeC1 ==
  /\ pc = "c1"
  /\ IF SeriesError(vects, 1, Columns(nutr_df)) # "none"
     THEN /\ Raise("c1", SeriesError(vects, 1, Columns(nutr_df)))
          /\ UNCHANGED <<ns, c1>>
     ELSE /\ c1' = Series(vects[1], Columns(nutr_df))
          /\ ns' = ns \cup {"c1"}
          /\ Goto("c1", "c2")
  /\ SameObjects
  /\ UNCHANGED <<file, df, desc_df, nutr_df, nutr_df_TF, pca, pca_df, labels,
                 components, vects, c2, km, jn>>

\* c2 = pd.Series(vects[1], index=nutr_df.columns)
MakeC2 ==
  /\ pc = "c2"
  /\ IF SeriesError(vects, 2, Columns(nutr_df)) # "none"
     THEN /\ Raise("c2", SeriesError(vects, 2, Columns(nutr_df)))
          /\ UNCHANGED <<ns, c2>>
     ELSE /\ c2' = Series(vects[2], Columns(nutr_df))
          /\ ns' = ns \cup {"c2"}
          /\ Goto("c2", "kmeans")
  /\ SameObjects
  /\ UNCHANGED <<file, df, desc_df, nutr_df, nutr_df_TF, pca, pca_df, labels,
                 components, vects, c1, km, jn>>

(* ------------------------------ Grouper ------------------------------- *)
\* sklearn.cluster.KMeans on integer points.  A centre is the mean of its
\* members, kept as the pair (sum vector s, member count n) so that all
\* comparisons of squared distances stay in the integers.
Pt(cells) == [k \in 1..Len(cells) |-> cells[k].v]

Points(a) == [i \in 1..Len(a) |-> Pt(a[i])]

PointCentre(x) == [s |-> x, n |-> 1]

\* n^2 times the squared distance from x to the centre c
DistNum(x, c) == SumSeq([d \in 1..Len(x) |-> (c.n * x[d] - c.s[d]) * (c.n * x[d] - c.s[d])])

\* dist(x, cx) < dist(y, cy)
Less(x, cx, y, cy) == DistNum(x, cx) * cy.n * cy.n < DistNum(y, cy) * cx.n * cx.n

\* argmin over the centres; the first of several nearest centres wins
Nearest(x, cs) ==
  CHOOSE k \in 1..Len(cs) :
    /\ \A j \in 1..(k - 1) : Less(x, cs[k], x, cs[j])
    /\ \A j \in (k + 1)..Len(cs) : ~Less(x, cs[j], x, cs[k])

\* E-step: labels are 0-based, one per row of X
Assign(X, cs) == [i \in 1..Len(X) |-> Nearest(X[i], cs) - 1]

Members(lab, k) == {i \in 1..Len(lab) : lab[i] = k - 1}

SumOver(X, I) ==
  IF Len(X) = 0 THEN <<>>
  ELSE [d \in 1..Len(X[1]) |-> SumSeq([i \in 1..Len(X) |-> IF i \in I THEN X[i][d] ELSE 0])]

EmptyClusters(lab, nc) == {k \in 1..nc : Members(lab, k) = {}}

\* Points ordered by decreasing distance to their own (old) centre:
\* the number of points that come before point i.
FarRank(X, lab, cs, i) ==
  Cardinality({j \in 1..Len(X) :
     \/ Less(X[i], cs[lab[i] + 1], X[j], cs[lab[j] + 1])
     \/ /\ ~Less(X[j], cs[lab[j] + 1], X[i], cs[lab[i] + 1])
        /\ j < i})

FarIdx(X, lab, cs, e) == CHOOSE i \in 1..Len(X) : FarRank(X, lab, cs, i) = e - 1

EmptyRank(lab, nc, k) == Cardinality({j \in EmptyClusters(lab, nc) : j < k}) + 1

\* the points moved into empty clusters (_relocate_empty_clusters_dense)
Relocated(X, lab, cs) ==
  {FarIdx(X, lab, cs, e) : e \in 1..Cardinality(EmptyClusters(lab, Len(cs)))}

\* M-step: the mean of each cluster's members; an empty cluster takes the
\* point farthest from its centre, which leaves its old cluster.
NewCentres(X, lab, cs) ==
  LET moved == IF EmptyClusters(lab, Len(cs)) = {} THEN {} ELSE Relocated(X, lab, cs)
  IN  [k \in 1..Len(cs) |->
         IF Members(lab, k) = {}
         THEN PointCentre(X[FarIdx(X, lab, cs, EmptyRank(lab, Len(cs), k))])
         ELSE [s |-> SumOver(X, Members(lab, k) \ moved),
               n |-> Cardinality(Members(lab, k) \ moved)]]

\* The draws of numpy's RandomState(seed): the t-th draw from m choices.
Draw(seed, t, m) == (seed * 7 + t * 3) % m

\* k-means++: the first centre is any point; each further centre is a point
\* at positive distance from the centres chosen so far (drawn with
\* probability proportional to that distance), or any point if none is.
Candidates(X, chosen) ==
  IF \E i \in 1..Len(X) : \A c \in Range(chosen) : X[i] # X[c]
  THEN SelectSeq([i \in 1..Len(X) |-> i], LAMBDA i : \A c \in Range(chosen) : X[i] # X[c])
  ELSE [i \in 1..Len(X) |-> i]

RECURSIVE KMeansPlusPlus(_, _, _, _)
KMeansPlusPlus(X, seed, nc, chosen) ==
  IF Len(chosen) = nc THEN chosen
  ELSE KMeansPlusPlus(X, seed, nc,
         Append(chosen, Candidates(X, chosen)[Draw(seed, Len(chosen) + 1,
                                                   Len(Candidates(X, chosen))) + 1]))

\* an unseeded generator: any choice of different rows
InitChoicesUnseeded(X, seed, nc) ==
  {[k \in 1..nc |-> PointCentre(X[f[k]])] :
     f \in {g \in [1..nc -> 1..Len(X)] : \A a, b \in 1..nc : g[a] = g[b] => a = b}}

\* The initial centres a fit may start from.  With random_state set the
\* generator is seeded, so there is exactly one.
InitChoices(X, seed, nc) ==
  {[k \in 1..nc |-> PointCentre(X[KMeansPlusPlus(X, seed, nc, <<>>)[k]])]}

\* One iteration of _kmeans_single_lloyd from the state k:
\* E-step against the current centres, M-step, then the convergence test
\* (labels equal to the previous iteration's, or else no centre moved by
\* more than the tolerance); when the loop ends without the labels having
\* repeated the E-step is run once more on the last centres.
KmStart(cs, n) ==
  [centres |-> cs, labels_old |-> [i \in 1..n |-> -1], labels |-> [i \in 1..n |-> -1],
   it |-> 0, done |-> FALSE, strict |-> FALSE, stop |-> "none"]

\* center_shift_tot <= tol, with tol = 1e-4 * mean(var(X, axis=0)): for
\* integer rows with a handful of members per centre the smallest non-zero
\* shift is far above tol, so the test passes exactly when no centre moved.
ShiftWithinTol(old, new) ==
  \A c \in 1..Len(old) : \A d \in 1..Len(old[c].s) :
    new[c].n * old[c].s[d] = old[c].n * new[c].s[d]

\* the loop goes on past max_iter until the labels repeat
LloydStepNoCap(X, k, cap) ==
  LET lab == Assign(X, k.centres)
      new == NewCentres(X, lab, k.centres)
  IN  IF lab = k.labels_old
      THEN [k EXCEPT !.centres = new, !.labels = lab,
                     !.it = k.it + 1, !.done = TRUE, !.strict = TRUE, !.stop = "labels"]
      ELSE IF ShiftWithinTol(k.centres, new)
      THEN [k EXCEPT !.centres = new, !.labels = Assign(X, new),
                     !.it = k.it + 1, !.done = TRUE, !.stop = "shift"]
      ELSE [k EXCEPT !.centres = new, !.labels_old = lab, !.labels = lab,
                     !.it = k.it + 1]

LloydStep(X, k, cap) ==
  LET lab == Assign(X, k.centres)
      new == NewCentres(X, lab, k.centres)
  IN  IF lab = k.labels_old
      THEN [k EXCEPT !.centres = new, !.labels = lab,
                     !.it = k.it + 1, !.done = TRUE, !.strict = TRUE, !.stop = "labels"]
      ELSE IF ShiftWithinTol(k.centres, new)
      THEN [k EXCEPT !.centres = new, !.labels = Assign(X, new),
                     !.it = k.it + 1, !.done = TRUE, !.stop = "shift"]
      ELSE IF k.it + 1 >= cap
      THEN [k EXCEPT !.centres = new, !.labels_old = lab, !.labels = Assign(X, new),
                     !.it = k.it + 1, !.done = TRUE, !.stop = "cap"]
      ELSE [k EXCEPT !.centres = new, !.labels_old = lab, !.labels = lab,
                     !.it = k.it + 1]

RECURSIVE LloydRun(_, _, _)
LloydRun(X, k, cap) == IF k.done THEN k ELSE LloydRun(X, LloydStep(X, k, cap), cap)

\* KMeans(n_clusters=nc, random_state=seed).fit(X) from the centres cs.
\* fit raises ValueError when there are fewer samples than clusters.
KMeansError(X, nc) == IF Len(X) < nc THEN "ValueError" ELSE "none"

\* labels reported counting from 1
KMeansLabelsOneBased(X, cs) ==
  [i \in 1..Len(X) |-> LloydRun(X, KmStart(cs, Len(X)), MaxIter).labels[i] + 1]

KMeansLabels(X, cs) == LloydRun(X, KmStart(cs, Len(X)), MaxIter).labels

\* kmeansmodel = KMeans(n_clusters=3, random_state=13)
\* kmeansmodel.fit(pca[:, :5])
KMeansFit ==
  /\ pc = "kmeans"
  /\ IF KMeansError(Points(SliceCols(pca, NComponents)), NClusters) # "none"
     THEN /\ Raise("kmeans", KMeansError(Points(SliceCols(pca, NComponents)), NClusters))
          /\ ns' = ns \cup {"kmeansmodel"}
          /\ UNCHANGED labels
     ELSE /\ \E cs \in InitChoices(Points(SliceCols(pca, NComponents)), RandomState, NClusters) :
               labels' = KMeansLabels(Points(SliceCols(pca, NComponents)), cs)
          /\ ns' = ns \cup {"kmeansmodel", "labels_"}
          /\ Goto("kmeans", "cluster_df")
  /\ UNCHANGED <<file, ident, df, desc_df, nutr_df, nutr_df_TF, pca, pca_df, interp, km, jn>>

\* pca_df['Cluster'] = values: one value per row, by position.
WithCluster(d, lab) ==
  [i \in 1..Len(d) |-> [x \in DOMAIN d[i] \cup {"Cluster"} |->
                          IF x = "Cluster" THEN lab[i] ELSE d[i][x]]]

\* pca_df = pd.DataFrame(pca[:, :5], index=desc_df.index)
MakeClusterDf ==
  /\ pc = "cluster_df"
  /\ IF Len(pca) # Len(desc_df)
     THEN /\ Raise("cluster_df", "ValueError")
          /\ UNCHANGED <<ident, pca_df>>
     ELSE /\ pca_df' = FrameOf(SliceCols(pca, NComponents), Index(desc_df))
          /\ Rebind("pca_df")
          /\ Goto("cluster_df", "set_cluster")
  /\ UNCHANGED <<file, ns, df, desc_df, nutr_df, nutr_df_TF, pca, labels, interp, km, jn>>

\* pca_df['Cluster'] = kmeansmodel.labels_
SetCluster ==
  /\ pc = "set_cluster"
  /\ IF Len(labels) # Len(pca_df)
     THEN /\ Raise("set_cluster", "ValueError")
          /\ UNCHANGED pca_df
     ELSE /\ pca_df' = WithCluster(pca_df, labels)
          /\ Goto("set_cluster", "cluster_join")
  /\ SameObjects
  /\ UNCHANGED <<file, ns, df, desc_df, nutr_df, nutr_df_TF, pca, labels, interp, km, jn>>

\* pca_df = pca_df.join(desc_df)
ClusterJoin ==
  /\ pc = "cluster_join"
  /\ pca_df' = Join(pca_df, desc_df)
  /\ Rebind("pca_df")
  /\ Goto("cluster_join", "done")
  /\ UNCHANGED <<file, ns, df, desc_df, nutr_df, nutr_df_TF, pca, labels, interp, km, jn>>

(* --------------------------- the notebook run ------------------------- *)
Next ==
  \/ ReadCsv
  \/ DropNa
  \/ SplitDesc
  \/ DescSetIndex
  \/ SplitNutr
  \/ DropDescCols
  \/ NutrSetIndex
  \/ Shift
  \/ MakeTfFrame
  \/ BoxCoxLoop
  \/ StandardScale
  \/ PcaFit
  \/ MakePcaDf
  \/ JoinDesc
  \/ DropJoined
  \/ RenameCols
  \/ MakeVects
  \/ MakeC1
  \/ MakeC2
  \/ KMeansFit
  \/ MakeClusterDf
  \/ SetCluster
  \/ ClusterJoin

Spec == Init /\ [][Next]_vars

(* ---------------------------- repeated fits --------------------------- *)
\* KMeans(n_clusters=3, random_state=seed).fit(X), run MaxRuns times in a
\* row on one matrix X and stepped one Lloyd iteration at a time.
MaxPts == 4       \* rows of X
MaxCoord == 2     \* coordinates of X are 0..MaxCoord
MaxSeed == 2      \* seeds are 0..MaxSeed
Dim == 2          \* columns of X
MaxRuns == 2      \* fits of the same (X, seed)

Runs == 1..MaxRuns

KmPoints == [1..Dim -> 0..MaxCoord]

\* The rows of X are pairwise different, as the scores of different foods
\* are, and listed in increasing (lexicographic) order: the initial centres
\* are drawn by row number, so another order only renames the rows.
PtLess(a, b) == \E d \in 1..Dim : a[d] < b[d] /\ \A e \in 1..(d - 1) : a[e] = b[e]

Increasing(X) == \A i \in 1..(Len(X) - 1) : PtLess(X[i], X[i + 1])

KmInputs == {X \in UNION {[1..n -> KmPoints] : n \in (NClusters - 1)..MaxPts} : Increasing(X)}

KmIdle == [phase |-> "idle", k |-> KmStart(<<>>, 0)]

KmInit ==
  /\ kmX \in KmInputs
  /\ kmSeed \in 0..MaxSeed
  /\ kmRun = [r \in Runs |-> KmIdle]
  /\ NbUnused
  /\ JnUnused

\* fit(): validate, draw the initial centres
KmFit(r) ==
  /\ kmRun[r].phase = "idle"
  /\ \A q \in 1..(r - 1) : kmRun[q].phase \in {"done", "error"}
  /\ IF KMeansError(kmX, NClusters) # "none"
     THEN kmRun' = [kmRun EXCEPT ![r].phase = "error"]
     ELSE \E cs \in InitChoices(kmX, kmSeed, NClusters) :
            kmRun' = [kmRun EXCEPT ![r] = [phase |-> "iter", k |-> KmStart(cs, Len(kmX))]]
  /\ UNCHANGED <<nb, jn, kmX, kmSeed>>

\* one Lloyd iteration; the fit returns when the iteration reports done
KmIterate(r) ==
  /\ kmRun[r].phase = "iter"
  /\ LET k == LloydStep(kmX, kmRun[r].k, MaxIter)
     IN  kmRun' = [kmRun EXCEPT ![r] = [phase |-> IF k.done THEN "done" ELSE "iter", k |-> k]]
  /\ UNCHANGED <<nb, jn, kmX, kmSeed>>

KmNext == \E r \in Runs : KmFit(r) \/ KmIterate(r)

KMeansSpec == KmInit /\ [][KmNext]_vars

(* --------------------------- a join on its own ------------------------ *)
\* left.join(right) for frames whose row labels need not agree.
MaxJoinRows == 2  \* rows of either frame
MaxId == 2        \* row labels are 1..MaxId

JoinLefts ==
  UNION {[1..n -> {[idx |-> i, names |-> <<"0">>, comps |-> <<7>>] : i \in 1..MaxId}]
           : n \in 0..MaxJoinRows}

JoinRights ==
  UNION {[1..n -> [idx : 1..MaxId, Shrt_Desc : {"food", "drink"}]] : n \in 0..MaxJoinRows}

JoinInit ==
  /\ joinL \in JoinLefts
  /\ joinR \in JoinRights
  /\ joinOut = [returned |-> FALSE, rows |-> <<>>]
  /\ NbUnused
  /\ KmUnused

JoinCall ==
  /\ ~joinOut.returned
  /\ joinOut' = [returned |-> TRUE, rows |-> Join(joinL, joinR)]
  /\ UNCHANGED <<nb, km, joinL, joinR>>

JoinNext == JoinCall

JoinSpec == JoinInit /\ [][JoinNext]_vars

(* ------------------------- names a step uses -------------------------- *)
\* The names a step's statements read, and the names they bind or edit.
Reads(cell) ==
  CASE cell = "read_csv"       -> {}
    [] cell = "dropna"         -> {"df"}
    [] cell = "split_desc"     -> {"df"}
    [] cell = "desc_set_index" -> {"desc_df"}
    [] cell = "split_nutr"     -> {"df"}
    [] cell = "drop_desc_cols" -> {"nutr_df"}
    [] cell = "set_index"      -> {"nutr_df"}
    [] cell = "shift"          -> {"nutr_df"}
    [] cell = "tf_frame"       -> {"nutr_df"}
    [] cell = "boxcox"         -> {"nutr_df", "nutr_df_TF"}
    [] cell = "scale"          -> {"nutr_df_TF"}
    [] cell = "pca"            -> {"nutr_df_TF"}
    [] cell = "pca_df"         -> {"pca", "desc_df"}
    [] cell = "join_desc"      -> {"pca_df", "desc_df"}
    [] cell = "drop_joined"    -> {"pca_df"}
    [] cell = "rename"         -> {"pca_df"}
    [] cell = "vects"          -> {"fit"}
    [] cell = "c1"             -> {"vects", "nutr_df"}
    [] cell = "c2"             -> {"vects", "nutr_df"}
    [] cell = "kmeans"         -> {"pca"}
    [] cell = "cluster_df"     -> {"pca", "desc_df"}
    [] cell = "set_cluster"    -> {"pca_df", "kmeansmodel", "labels_"}
    [] cell = "cluster_join"   -> {"pca_df", "desc_df"}

Writes(cell) ==
  CASE cell = "read_csv"       -> {"df"}
    [] cell = "dropna"         -> {"df"}
    [] cell = "split_desc"     -> {"desc_df"}
    [] cell = "desc_set_index" -> {"desc_df"}
    [] cell = "split_nutr"     -> {"nutr_df"}
    [] cell = "drop_desc_cols" -> {"nutr_df"}
    [] cell = "set_index"      -> {"nutr_df"}
    [] cell = "shift"          -> {"nutr_df"}
    [] cell = "tf_frame"       -> {"nutr_df_TF"}
    [] cell = "boxcox"         -> {"nutr_df_TF"}
    [] cell = "scale"          -> {"nutr_df_TF"}
    [] cell = "pca"            -> {"fit", "pca"}
    [] cell = "pca_df"         -> {"pca_df"}
    [] cell = "join_desc"      -> {"pca_df"}
    [] cell = "drop_joined"    -> {"pca_df"}
    [] cell = "rename"         -> {"pca_df"}
    [] cell = "vects"          -> {"vects"}
    [] cell = "c1"             -> {"c1"}
    [] cell = "c2"             -> {"c2"}
    [] cell = "kmeans"         -> {"kmeansmodel", "labels_"}
    [] cell = "cluster_df"     -> {"pca_df"}
    [] cell = "set_cluster"    -> {"pca_df"}
    [] cell = "cluster_join"   -> {"pca_df"}

(* ============================== properties ============================ *)
Ran(cell) == cell \in Range(ran)

Ids(d) == {d[i].idx : i \in 1..Len(d)}

HasMissing(r) ==
  \/ r.Shrt_Desc = NaNStr
  \/ r.GmWt_1 = NaN
  \/ \E j \in 1..NumNutr : r.nutr[j] = NaN

\* C1: once the Cleaner has run, df holds exactly the rows of the loaded
\* table that have no missing value in any column, unchanged and in their
\* order, and neither desc_df nor nutr_df holds a missing value.
C1_CleanerDropsExactlyRowsWithMissing ==
  /\ Ran("dropna") =>
       LET raw == ReadCsvFrame(file.rows)
           keep == {p \in 1..Len(raw) : ~HasMissing(raw[p])}
       IN  /\ Len(df) = Cardinality(keep)
           /\ \A i \in 1..Len(df) : \E p \in keep : df[i] = raw[p]
           /\ \A i \in 1..(Len(df) - 1) : df[i].idx < df[i + 1].idx
  /\ \A i \in 1..Len(desc_df) : desc_df[i].Shrt_Desc # NaNStr
  /\ \A i \in 1..Len(nutr_df) : \A j \in 1..NumNutr : nutr_df[i].nutr[j] # NaN

\* a table that lost some rows and kept others has been cleaned and split
C1_Witness ==
  /\ pc = "shift"
  /\ Len(df) >= 2
  /\ Len(df) < Len(file.rows)
  /\ Len(desc_df) = Len(df) /\ Len(nutr_df) = Len(df)

\* C2: from the end of the split on, desc_df and nutr_df carry the same set
\* of row identifiers, and so does pca_df whenever it exists.
C2_SameRowIdentifiers ==
  Ran("set_index") =>
    /\ Ids(desc_df) = Ids(nutr_df)
    /\ "pca_df" \in ns => Ids(pca_df) = Ids(desc_df)

C2_Witness ==
  /\ pc = "done"
  /\ Len(df) < Len(file.rows)
  /\ Cardinality(Ids(pca_df)) >= 3

\* C3: the fitted labels give each row of the projected matrix one label in
\* 0..NClusters-1, and the final table carries one row per identifier with
\* that row's label in its Cluster column.
C3_OneLabelPerRow ==
  /\ "labels_" \in ns =>
       /\ Len(labels) = Len(pca)
       /\ \A i \in 1..Len(labels) : labels[i] \in 0..(NClusters - 1)
  /\ pc = "done" =>
       /\ Len(pca_df) = Len(pca)
       /\ \A i \in 1..Len(pca_df) : pca_df[i].Cluster = labels[i]
       /\ \A i, j \in 1..Len(pca_df) : pca_df[i].idx = pca_df[j].idx => i = j

C3_Witness ==
  /\ pc = "done"
  /\ Len(pca_df) > NClusters
  /\ {pca_df[i].Cluster : i \in 1..Len(pca_df)} = 0..(NClusters - 1)

\* C4: two fits of the same matrix with the same seed and cluster count end
\* with the same labels up to a renaming of the labels (and fail alike).
SamePartition(l1, l2) ==
  /\ Len(l1) = Len(l2)
  /\ \A i, j \in 1..Len(l1) : (l1[i] = l1[j]) <=> (l2[i] = l2[j])

C5_Original ==
  err # "none" =>
    /\ pc = "aborted"
    /\ ran = SubSeq(CellOrder, 1, Len(ran)) /\ ran[Len(ran)] = failed
    /\ "pca_df" \notin ns
    /\ "labels_" \notin ns

\* C5 amended: once a cell has raised, the run is stopped there (the cells
\* that ran are the cells up to the failed one, each once) and no labels
\* exist; what was bound before the exception stays bound: the projected
\* table exists exactly when the failed cell comes after the cell that
\* builds it (the Grouper's cells).
C5_AbortKeepsEarlierResults ==
  err # "none" =>
    /\ pc = "aborted"
    /\ ran = SubSeq(CellOrder, 1, Len(ran)) /\ ran[Len(ran)] = failed
    /\ "labels_" \notin ns /\ labels = <<>>
    /\ "pca_df" \in ns <=> CellPos(failed) > CellPos("pca_df")
    /\ \A i \in 1..Len(pca_df) : "Cluster" \notin DOMAIN pca_df[i]

\* the Grouper failed on a table of fewer rows than clusters
C5_Witness ==
  /\ pc = "aborted" /\ failed = "kmeans" /\ err = "ValueError"
  /\ "pca_df" \in ns /\ Len(pca_df) = NClusters - 1

\* C6 as stated: when the Reducer produced fewer than NComponents components,
\* building the projected table fails.
C6_Original ==
  (Ran("pca_df") /\ \E i \in 1..Len(pca) : Len(pca[i]) < NComponents)
    => failed = "pca_df"

\* C6 amended: slicing more components than exist does not fail; the
\* projected table has one row per row of pca with min(NComponents, number
\* of components produced) columns, and the run goes on with them.
C6_SliceClips ==
  Ran("pca_df") =>
    /\ failed # "pca_df"
    /\ "pca_df" \in ns
    /\ Len(pca_df) = Len(pca)
    /\ \A i \in 1..Len(pca_df) :
         /\ Len(pca_df[i].comps) = Min(NComponents, Len(pca[i]))
         /\ Len(pca[i]) = Min(Len(df), NumNutr)

\* a run that finished with fewer than NComponents component columns
C6_Witness ==
  /\ pc = "done"
  /\ Len(pca_df) >= NClusters
  /\ Len(pca_df[1].comps) < NComponents

NonPositiveCols == {j \in 1..NumNutr : \E i \in 1..Len(nutr_df) : nutr_df[i].nutr[j] <= 0}

TFCells(row) == IF Ran("scale") THEN row ELSE row.cells

C8_BoxCoxRejectsNonPositive ==
  Ran("boxcox") =>
    /\ NonPositiveCols # {} => failed = "boxcox" /\ err = "ValueError"
    /\ \A i \in 1..Len(nutr_df_TF) : \A c \in 1..Len(TFCells(nutr_df_TF[i])) :
         TFCells(nutr_df_TF[i])[c].col \notin NonPositiveCols

\* the loop stopped at a column holding a zero, after transforming a column
C8_Witness ==
  /\ failed = "boxcox" /\ err = "ValueError"
  /\ \E i \in 1..Len(nutr_df) : \E j \in 1..NumNutr : nutr_df[i].nutr[j] = 0
  /\ \A i \in 1..Len(nutr_df) : \A j \in 1..NumNutr : nutr_df[i].nutr[j] >= 0
  /\ Len(nutr_df_TF) >= 2 /\ Len(nutr_df_TF[1].cells) >= 1

\* C9 as stated: after the split no step edits a bound table in place
\* (changes what an object holds), and df and desc_df stay as they are.
Tables ==
  [df |-> df, desc_df |-> desc_df, nutr_df |-> nutr_df, nutr_df_TF |-> nutr_df_TF,
   pca |-> pca, pca_df |-> pca_df]

EditedInPlace(n) == ident[n] # 0 /\ ident'[n] = ident[n] /\ Tables'[n] # Tables[n]

C9_Original ==
  [][Ran("set_index") =>
       /\ \A n \in TableNames : ~EditedInPlace(n)
       /\ df' = df
       /\ desc_df' = desc_df
  ]_vars

\* C9 amended: after the split df and desc_df are neither edited nor bound
\* anew, so the descriptive values joined at the end are those of the
\* split; nutr_df is never edited in place, only bound anew, once, by the
\* Normalizer's shift, to a table whose values are one higher; the steps
\* that edit a table in place are the Box-Cox loop, on nutr_df_TF, and the
\* drop, the rename and the Cluster column assignment, on pca_df, each on
\* the table the statement before it in the same cell has made.
C9_InPlaceEditsOnlyOnNewTables ==
  [][Ran("set_index") =>
       /\ df' = df /\ ident'["df"] = ident["df"]
       /\ desc_df' = desc_df /\ ident'["desc_df"] = ident["desc_df"]
       /\ ~EditedInPlace("nutr_df")
       /\ \/ nutr_df' = nutr_df /\ ident'["nutr_df"] = ident["nutr_df"]
          \/ /\ pc = "shift"
             /\ ident'["nutr_df"] > ident["nutr_df"]
             /\ Len(nutr_df') = Len(nutr_df)
             /\ \A i \in 1..Len(nutr_df) :
                  /\ nutr_df'[i].idx = nutr_df[i].idx
                  /\ \A j \in 1..NumNutr : nutr_df'[i].nutr[j] = nutr_df[i].nutr[j] + 1
       /\ \A n \in TableNames :
            EditedInPlace(n) =>
              \/ n = "nutr_df_TF" /\ pc = "boxcox" /\ ran[Len(ran)] = "tf_frame"
              \/ n = "pca_df" /\ pc = "drop_joined" /\ ran[Len(ran)] = "join_desc"
              \/ n = "pca_df" /\ pc = "rename" /\ ran[Len(ran)] = "drop_joined"
              \/ n = "pca_df" /\ pc = "set_cluster" /\ ran[Len(ran)] = "cluster_df"
       /\ pc' = "done" =>
            \A i \in 1..Len(pca_df') :
              \E r \in 1..Len(desc_df) :
                desc_df[r].idx = pca_df'[i].idx /\ desc_df[r].Shrt_Desc = pca_df'[i].Shrt_Desc
  ]_vars

\* a finished run: nutr_df holds the shifted values under a later object
\* than df and desc_df, and pca_df carries the descriptive values of desc_df
C9_Witness ==
  /\ pc = "done"
  /\ Len(desc_df) >= NClusters
  /\ ident["nutr_df"] > ident["desc_df"] /\ ident["desc_df"] > ident["df"]
  /\ \A i \in 1..Len(nutr_df) : \A j \in 1..NumNutr : nutr_df[i].nutr[j] = df[i].nutr[j] + 1
  /\ \A i \in 1..Len(pca_df) : pca_df[i].Shrt_Desc = desc_df[i].Shrt_Desc

\* C10: applying the missing-value filter to the cleaned table removes no
\* row and returns the same table.
C10_CleaningIdempotent ==
  Ran("dropna") =>
    /\ Len(DropNaFrame(df)) = Len(df)
    /\ DropNaFrame(df) = df

\* the filter has removed rows from a table and left others
C10_Witness ==
  /\ pc = "split_desc"
  /\ Len(df) >= 1
  /\ Len(file.rows) - Len(df) >= 2

\* The stage a step belongs to: 1 Loader, 2 Cleaner, 3 Normalizer,
\* 4 Reducer, 5 Grouper.
StageOf(cell) ==
  CASE cell = "read_csv" -> 1
    [] cell \in {"dropna", "split_desc", "desc_set_index", "split_nutr",
                 "drop_desc_cols", "set_index"} -> 2
    [] cell \in {"shift", "tf_frame", "boxcox", "scale"} -> 3
    [] cell \in {"pca", "pca_df", "join_desc", "drop_joined", "rename",
                 "vects", "c1", "c2"} -> 4
    [] cell \in {"kmeans", "cluster_df", "set_cluster", "cluster_join"} -> 5

\* the step that last bound or edited name n before the i-th executed step
LastWriter(n, i) ==
  CHOOSE j \in 1..(i - 1) :
    /\ n \in Writes(ran[j])
    /\ \A k \in (j + 1)..(i - 1) : n \notin Writes(ran[k])

\* C12: at every point of a run the steps executed so far are the first
\* steps of the notebook in file order and the next step is the one that
\* follows; the step executed last has not run before, belongs to the same
\* stage as the step before it or to the next one (Loader, Cleaner,
\* Normalizer, Reducer, Grouper), runs after every step of the stages before
\* its own, and reads only names last written by a step of its own or an
\* earlier stage.
C12_StagesRunForwardOnce ==
  LET last == Len(ran)
  IN  /\ last <= Len(CellOrder)
      /\ ran = SubSeq(CellOrder, 1, last)
      /\ pc \notin {"done", "aborted"} => last < Len(CellOrder) /\ pc = CellOrder[last + 1]
      /\ pc = "done" => ran = CellOrder
      /\ pc = "aborted" => last >= 1 /\ failed = ran[last]
      /\ last >= 1 =>
           /\ \A j \in 1..(last - 1) : ran[j] # ran[last]
           /\ last >= 2 => StageOf(ran[last]) - StageOf(ran[last - 1]) \in {0, 1}
           /\ \A c \in Range(CellOrder) :
                StageOf(c) < StageOf(ran[last]) => \E j \in 1..(last - 1) : ran[j] = c
           /\ \A n \in Reads(ran[last]) :
                /\ \E j \in 1..(last - 1) : n \in Writes(ran[j])
                /\ StageOf(ran[LastWriter(n, last)]) <= StageOf(ran[last])

\* a run that has gone through all five stages to the end
C12_Witness ==
  /\ pc = "done"
  /\ Len(ran) = Len(CellOrder)
  /\ StageOf(ran[1]) = 1 /\ StageOf(ran[Len(ran)]) = 5
  /\ Len(pca_df) >= NClusters

\* row i is at least as near to the centre of its label as to any other
NearestOwn(X, lab, cs) ==
  \A i \in 1..Len(X) : \A c \in 1..Len(cs) : ~Less(X[i], cs[c], X[i], cs[lab[i] + 1])

\* every centre is the mean of the rows that carry its label
CentresAreMeans(X, lab, cs) ==
  \A c \in 1..Len(cs) :
    /\ Members(lab, c) # {}
    /\ \A d \in 1..Len(cs[c].s) :
         cs[c].s[d] * Cardinality(Members(lab, c)) = cs[c].n * SumOver(X, Members(lab, c))[d]

Returned(r) ==
  /\ kmRun[r].phase = "done"
  /\ Len(kmRun[r].k.labels) = Len(kmX)
  /\ \A i \in 1..Len(kmX) : kmRun[r].k.labels[i] \in 0..(NClusters - 1)
  /\ kmRun[r].k.it \in 1..MaxIter
  /\ NearestOwn(kmX, kmRun[r].k.labels, kmRun[r].k.centres)
  /\ \/ /\ kmRun[r].k.stop \in {"labels", "shift"}
        /\ CentresAreMeans(kmX, kmRun[r].k.labels, kmRun[r].k.centres)
     \/ /\ kmRun[r].k.stop = "cap"
        /\ kmRun[r].k.it = MaxIter

C14_ColumnOrderPreserved ==
  /\ Ran("boxcox") =>
       \A i \in 1..Len(nutr_df_TF) : \A j \in 1..Len(TFCells(nutr_df_TF[i])) :
         TFCells(nutr_df_TF[i])[j].col = Columns(nutr_df)[j]
  /\ Ran("pca") =>
       \A k \in 1..Len(components) :
         /\ Len(components[k]) = NumNutr
         /\ \A j \in 1..NumNutr : components[k][j].col = Columns(nutr_df)[j]
  /\ "c1" \in ns =>
       /\ Len(c1) = NumNutr
       /\ \A p \in 1..Len(c1) : c1[p].value.col = c1[p].label /\ c1[p].value.comp = 1
  /\ "c2" \in ns =>
       /\ Len(c2) = NumNutr
       /\ \A p \in 1..Len(c2) : c2[p].value.col = c2[p].label /\ c2[p].value.comp = 2

\* both loading series exist, with one entry per nutrient column
C14_Witness ==
  /\ pc = "done"
  /\ "c1" \in ns /\ "c2" \in ns
  /\ {c1[p].label : p \in 1..Len(c1)} = 1..NumNutr
  /\ {c2[p].value.col : p \in 1..Len(c2)} = 1..NumNutr

\* the row of nutr_df that carries the identifier r
NutrRow(r) == CHOOSE q \in 1..Len(nutr_df) : nutr_df[q].idx = r

\* C15: desc_df and nutr_df list the same identifiers in the same order, and
\* row i of nutr_df_TF and of pca is computed from row i of nutr_df; in the
\* final table the coordinates stored under an identifier are the ones
\* computed from the nutrient row of that identifier, and its Cluster value
\* is the label k-means gave to the point of that row.
C15_RowsStayAligned ==
  /\ Ran("set_index") => Index(desc_df) = Index(nutr_df)
  /\ Ran("boxcox") =>
       \A i \in 1..Len(nutr_df_TF) : \A j \in 1..Len(TFCells(nutr_df_TF[i])) :
         TFCells(nutr_df_TF[i])[j].src = nutr_df[i].idx
  /\ Ran("pca") =>
       /\ Len(pca) = Len(nutr_df)
       /\ \A i \in 1..Len(pca) : \A k \in 1..Len(pca[i]) : pca[i][k].src = nutr_df[i].idx
  /\ pc = "done" =>
       \A i \in 1..Len(pca_df) :
         LET r == pca_df[i].idx
             q == NutrRow(r)
         IN  /\ \E p \in 1..Len(nutr_df) : nutr_df[p].idx = r
             /\ \A k \in 1..Len(pca_df[i].comps) :
                  /\ pca_df[i].comps[k].src = r
                  /\ pca_df[i].comps[k].v =
                       Len(nutr_df) * nutr_df[q].nutr[k]
                         - SumSeq([p \in 1..Len(nutr_df) |-> nutr_df[p].nutr[k]])
             /\ pca_df[i].Cluster = labels[q]
             /\ Pt(SliceCols(pca, NComponents)[q]) = Pt(pca_df[i].comps)

\* a finished run on a file that lost rows to the Cleaner, with rows in
\* different clusters
C15_Witness ==
  /\ pc = "done"
  /\ Len(pca_df) > NClusters
  /\ Len(df) < Len(file.rows)
  /\ \E i \in 1..Len(df) : df[i].idx # i - 1
  /\ \E i, j \in 1..Len(pca_df) : pca_df[i].Cluster # pca_df[j].Cluster

====
